---- MODULE Spec2Model ----
(***************************************************************************)
(* Model of the local entity store of craftbank_csnavi (lib/database):     *)
(* three IndexedDB object stores (projects, recordings, analyses) and the  *)
(* asynchronous repository operations on them.  Every IndexedDB request of *)
(* an operation is one atomic step; the JavaScript that runs between two   *)
(* requests (reads of the clock, id generation, object spreads) belongs to *)
(* the step of the request that precedes it.  Timestamps have millisecond  *)
(* resolution: two reads of the clock may return the same value.           *)
(***************************************************************************)
EXTENDS Integers, Sequences, FiniteSets, TLC

\* ---------------------------------------------------------------- bounds
MaxTime == 1        \* the clock (Date.now(), in ms) runs over 0..MaxTime
MaxIds == 4         \* generateId is called at most MaxIds times
MaxSeqOps == 4      \* operations started in the sequential specification
MaxOps == 3         \* operations started in the interleaved specification
NumProcs == 2       \* callers whose operations may overlap

Procs == 1..NumProcs

\* ------------------------------------------------------- values and codec
\* In-memory JavaScript values.  Strings are told apart by what the test
\* /^\d{4}-\d{2}-\d{2}T\d{2}:\d{2}:\d{2}/ and new Date(string) make of them.
Str(s) == [k |-> "str", s |-> s]         \* a string the pattern does not match
IsoStr(t) == [k |-> "iso", t |-> t]      \* Date(t).toISOString(), "...T09:00:00.000Z"
LocalStr(t) == [k |-> "local", t |-> t]  \* "YYYY-MM-DDTHH:MM:SS": time t, local zone
BadStr(s) == [k |-> "bad", s |-> s]      \* matches, not a date: "2024-99-99T99:99:99"
DateV(t) == [k |-> "date", t |-> t]      \* a Date object
InvalidDate == [k |-> "invalid"]         \* a Date object whose time is NaN
Blob(b) == [k |-> "blob", b |-> b]       \* a Blob with the bytes b
EmptyObject == [k |-> "object"]          \* {}
Absent == [k |-> "absent"]               \* key not present / undefined
Null == [k |-> "null"]

\* JSON.stringify then JSON.parse of one value: a Date becomes its ISO
\* string, an invalid Date null; a Blob has no enumerable property and
\* becomes {}; a key whose value is undefined stays absent
JsonValue(v) ==
  CASE v.k = "date" -> IsoStr(v.t)
    [] v.k = "invalid" -> Null
    [] v.k = "blob" -> EmptyObject
    [] OTHER -> v

\* the value branch of deserializeFromStorage: a string that starts with
\* YYYY-MM-DDTHH:MM:SS becomes new Date(string); {} is copied
ReviveValue(v) ==
  CASE v.k = "iso" -> DateV(v.t)
    [] v.k = "local" -> DateV(v.t)
    [] v.k = "bad" -> InvalidDate
    [] OTHER -> v

\* an id is `${Date.now()}_${random}`: the millisecond prefix and a suffix
\* that makes it unique
NoId == <<0, 0>>
generateId(t, n) == <<t, n>>

serializeProject(p) ==
  [id |-> p.id, name |-> JsonValue(p.name), status |-> JsonValue(p.status),
   createdAt |-> JsonValue(p.createdAt), updatedAt |-> JsonValue(p.updatedAt),
   recordingIds |-> p.recordingIds]

deserializeProject(p) ==
  [id |-> p.id, name |-> ReviveValue(p.name), status |-> ReviveValue(p.status),
   createdAt |-> ReviveValue(p.createdAt), updatedAt |-> ReviveValue(p.updatedAt),
   recordingIds |-> p.recordingIds]

serializeRecording(r) ==
  [id |-> r.id, projectId |-> r.projectId, createdAt |-> JsonValue(r.createdAt),
   duration |-> r.duration, audioBlob |-> JsonValue(r.audioBlob),
   source |-> JsonValue(r.source), transcript |-> JsonValue(r.transcript),
   transcribedAt |-> JsonValue(r.transcribedAt), analysisIds |-> r.analysisIds]

deserializeRecording(r) ==
  [id |-> r.id, projectId |-> r.projectId, createdAt |-> ReviveValue(r.createdAt),
   duration |-> r.duration, audioBlob |-> ReviveValue(r.audioBlob),
   source |-> ReviveValue(r.source), transcript |-> ReviveValue(r.transcript),
   transcribedAt |-> ReviveValue(r.transcribedAt), analysisIds |-> r.analysisIds]

serializeAnalysis(a) ==
  [id |-> a.id, recordingId |-> a.recordingId, projectId |-> a.projectId,
   createdAt |-> JsonValue(a.createdAt), checklistSnapshot |-> a.checklistSnapshot,
   result |-> a.result, transcriptSnapshot |-> JsonValue(a.transcriptSnapshot)]

deserializeAnalysis(a) ==
  [id |-> a.id, recordingId |-> a.recordingId, projectId |-> a.projectId,
   createdAt |-> ReviveValue(a.createdAt), checklistSnapshot |-> a.checklistSnapshot,
   result |-> a.result, transcriptSnapshot |-> ReviveValue(a.transcriptSnapshot)]

\* serializeForStorage / deserializeFromStorage of an entity of either type
serializeForStorage(x) ==
  IF "recordingIds" \in DOMAIN x THEN serializeProject(x)
  ELSE IF "analysisIds" \in DOMAIN x THEN serializeRecording(x)
  ELSE serializeAnalysis(x)

deserializeFromStorage(x) ==
  IF "recordingIds" \in DOMAIN x THEN deserializeProject(x)
  ELSE IF "analysisIds" \in DOMAIN x THEN deserializeRecording(x)
  ELSE deserializeAnalysis(x)

\* -------------------------------------------------------------- inputs
Names == {Str("Acme")}
Durations == {60}
AudioBlobs == {Blob("audio")}
\* checklistSnapshot and result of createAnalysis: plain JSON data
Checklists == {"checklist"}
Results == {"result"}
Transcripts == {Str("text")}
TranscriptSnapshots == {Str("text when analysed")}

\* UpdateProjectInput: every key is optional
NoPatch == [name |-> Absent, status |-> Absent, createdAt |-> Absent,
            recordingIds |-> Absent]
PatchName == [NoPatch EXCEPT !.name = Str("Beta")]
PatchStatus == [NoPatch EXCEPT !.status = Str("in_progress")]
\* a name that is a timestamp, as in "2024-01-15T10:00:00"
PatchNameDated == [NoPatch EXCEPT !.name = LocalStr(0)]
Ids(ids) == [k |-> "ids", v |-> ids]    \* an array of ids
PatchRecordingIds(ids) == [NoPatch EXCEPT !.recordingIds = Ids(ids)]

\* ---------------------------------------------------------------- state
VARIABLES
  projects,     \* object store 'projects': id -> stored record
  recordings,   \* object store 'recordings'
  analyses,     \* object store 'analyses'
  now,          \* the value the clock returned last
  nextId,       \* number of ids generated so far
  nOps,         \* number of operations started so far
  task,         \* per caller: the operation in progress and its locals
  everRec,      \* ids of all Recording records ever stored
  everAna,      \* ids of all AnalysisRecord records ever stored
  failures,     \* the rejected calls so far: what was called, the error the
                \* promise was rejected with, whether a store had changed
  dbInstance,   \* the module variable of line 423: the handle kept for reuse
  opens,        \* the indexedDB.open requests issued so far and their state
  recognizer,   \* the fields of the RealtimeSpeechRecognizer of the page
  engine        \* the browser's SpeechRecognition object, and what it has
                \* been asked and has delivered

vars == <<projects, recordings, analyses, now, nextId, nOps, task, everRec,
          everAna, failures, dbInstance, opens, recognizer, engine>>

Empty == [x \in {} |-> Null]

\* the locals of one call: op is the exported function that was called, pc
\* the request it waits for, req the number of its open request, arg its id argument, pid / rid the arguments of
\* the nested updateProject / deleteRecording call, upRet where the nested
\* updateProject returns to
Idle == [op |-> "none", pc |-> "idle", arg |-> NoId, pid |-> NoId, rid |-> NoId,
         patch |-> NoPatch, newId |-> NoId, obj |-> Null, rec |-> Null,
         recs |-> <<>>, anas |-> <<>>, projs |-> <<>>,
         acc |-> Null, res |-> Null, upRet |-> "none", pre |-> Null, req |-> 0]

\* speechToText.ts lines 68-76: the recognizer after its constructor
NewRecognizer == [isListening |-> FALSE, transcript |-> <<>>]

\* the SpeechRecognition object of line 96, or none in a browser without
\* the API: state is what the browser does with it, startCalls the calls of
\* recognition.start() since the last stop(), heard the final results
\* delivered since the last start(), stopped whether stop() was the last
\* call of the page, last the handler or method that ran last, events
\* how many ran, shown the text last given to onTranscriptUpdate
NewEngine(available) ==
  [available |-> available, state |-> "inactive", startCalls |-> 0,
   heard |-> <<>>, stopped |-> FALSE, last |-> "constructor", events |-> 0,
   shown |-> <<>>]

Init ==
  /\ projects = Empty
  /\ recordings = Empty
  /\ analyses = Empty
  /\ now = 0
  /\ nextId = 0
  /\ nOps = 0
  /\ task = [p \in Procs |-> Idle]
  /\ everRec = {}
  /\ everAna = {}
  /\ failures = {}
  /\ dbInstance = Null
  /\ opens = <<>>
  /\ recognizer = NewRecognizer
  /\ engine = NewEngine(TRUE)

Put(store, id, v) == [x \in DOMAIN store \cup {id} |-> IF x = id THEN v ELSE store[x]]
Delete(store, id) == [x \in DOMAIN store \ {id} |-> store[x]]
Snapshot == [projects |-> projects, recordings |-> recordings, analyses |-> analyses]

\* ids a caller passes: ids of stored entities, and an id that names nothing
ProjectIdsSeen == {NoId} \cup DOMAIN projects
RecordingIdsSeen == {NoId} \cup DOMAIN recordings
AnalysisIdsSeen == {NoId} \cup DOMAIN analyses

\* ------------------------------------------------------------- queries
\* store.get(id) followed by deserializeFromStorage, or null
GetProject(P, id) == IF id \in DOMAIN P THEN deserializeProject(P[id]) ELSE Null
GetRecording(R, id) == IF id \in DOMAIN R THEN deserializeRecording(R[id]) ELSE Null

\* all orders of the finite set S in which Before(a, b) holds for every a
\* placed before b
Orders(S, Before(_, _)) ==
  {s \in [1..Cardinality(S) -> S] :
     /\ \A i, j \in 1..Cardinality(S) : i # j => s[i] # s[j]
     /\ \A i, j \in 1..Cardinality(S) : i < j => Before(s[i], s[j])}

\* index 'updatedAt' walked with a 'prev' cursor: keys descending, equal keys
\* by primary key descending; two ids of the same millisecond are ordered by
\* their random suffix
UpdatedAtPrev(a, b) ==
  \/ a.updatedAt.t > b.updatedAt.t
  \/ a.updatedAt.t = b.updatedAt.t /\ a.id[1] >= b.id[1]

getAllProjects(P) ==
  Orders({deserializeProject(P[id]) : id \in DOMAIN P}, UpdatedAtPrev)

\* index.getAll(key): the matching records by primary key ascending
PrimaryKeyOrder(a, b) == a.id[1] <= b.id[1]

getRecordingsByProject(R, pid) ==
  Orders({deserializeRecording(R[id]) : id \in {x \in DOMAIN R : R[x].projectId = pid}},
         PrimaryKeyOrder)

getAnalysesByRecording(A, rid) ==
  Orders({deserializeAnalysis(A[id]) : id \in {x \in DOMAIN A : A[x].recordingId = rid}},
         PrimaryKeyOrder)

\* lines 839-854: index('projectId').getAll(projectId)
getAnalysesByProject(A, pid) ==
  Orders({deserializeAnalysis(A[id]) : id \in {x \in DOMAIN A : A[x].projectId = pid}},
         PrimaryKeyOrder)

\* ---------------------------------------------------- starting and ending
\* caller p is free and may start one more operation
CanStart(p, budget) == task[p].pc = "idle" /\ nOps < budget

Begin(p, t) ==
  /\ task' = [task EXCEPT ![p] = [t EXCEPT !.pre = Snapshot]]
  /\ nOps' = nOps + 1

\* the promise of the call settles with value v
Resolve(t, v) == [t EXCEPT !.pc = "done", !.res = v]

\* the promise of the call is rejected with the error e
Reject(t, e) == [t EXCEPT !.pc = "failed", !.res = e]

\* request.error of the request the call waits for
RequestError(pc) == [k |-> "error", request |-> pc]

\* the caller takes the result; it may start its next operation
Return(p) ==
  /\ task[p].pc \in {"done", "failed"}
  /\ task' = [task EXCEPT ![p] = Idle]
  /\ UNCHANGED <<projects, recordings, analyses, now, nextId, nOps, everRec, everAna,
                 failures, dbInstance, opens, recognizer, engine>>

\* what new Date() / Date.now() may return: the clock never runs backwards
ClockReads == now..MaxTime

\* ---------------------------------------------------------- Project CRUD
createProject(p, budget) ==
  /\ CanStart(p, budget)
  /\ nextId < MaxIds
  /\ \E name \in Names, t \in ClockReads :
       LET id == generateId(t, nextId + 1)
           project == [id |-> id, name |-> name, status |-> Str("draft"),
                       createdAt |-> DateV(t), updatedAt |-> DateV(t),
                       recordingIds |-> <<>>]
       IN /\ Begin(p, [Idle EXCEPT !.op = "createProject", !.pc = "cp_add",
                                   !.newId = id, !.obj = project])
          /\ now' = t
  /\ nextId' = nextId + 1
  /\ UNCHANGED <<projects, recordings, analyses, everRec, everAna, failures,
                 dbInstance, opens, recognizer, engine>>

CpAdd(p) ==
  /\ task[p].pc = "cp_add"
  /\ projects' = Put(projects, task[p].newId, serializeProject(task[p].obj))
  /\ task' = [task EXCEPT ![p] = Resolve(task[p], task[p].obj)]
  /\ UNCHANGED <<recordings, analyses, now, nextId, nOps, everRec, everAna, failures,
                 dbInstance, opens, recognizer, engine>>

\* { ...existing, ...input, updatedAt: new Date() }
MergeProject(existing, input, t) ==
  [id |-> existing.id,
   name |-> IF input.name.k = "absent" THEN existing.name ELSE input.name,
   status |-> IF input.status.k = "absent" THEN existing.status ELSE input.status,
   createdAt |-> IF input.createdAt.k = "absent" THEN existing.createdAt
                 ELSE input.createdAt,
   updatedAt |-> DateV(t),
   recordingIds |-> IF input.recordingIds.k = "absent" THEN existing.recordingIds
                    ELSE input.recordingIds.v]

PatchInputs == {PatchName, PatchNameDated, PatchStatus, PatchRecordingIds(<<>>)}

updateProject(p, budget) ==
  /\ CanStart(p, budget)
  /\ \E id \in ProjectIdsSeen, input \in PatchInputs :
       Begin(p, [Idle EXCEPT !.op = "updateProject", !.pc = "up_get", !.arg = id,
                             !.pid = id, !.patch = input, !.upRet = "done"])
  /\ UNCHANGED <<projects, recordings, analyses, now, nextId, everRec, everAna,
                 failures, dbInstance, opens, recognizer, engine>>

\* updateProject, lines 591-601: read the record, build the merged one
UpGet(p) ==
  /\ task[p].pc = "up_get"
  /\ LET existing == GetProject(projects, task[p].pid)
         t == task[p]
     IN IF existing = Null
        THEN /\ task' = [task EXCEPT ![p] =
                  IF t.upRet = "done" THEN Resolve(t, Null)
                  ELSE [t EXCEPT !.pc = t.upRet]]
             /\ now' = now
        ELSE \E d \in ClockReads :
               /\ task' = [task EXCEPT ![p] =
                    [t EXCEPT !.pc = "up_put",
                              !.obj = MergeProject(existing, t.patch, d)]]
               /\ now' = d
  /\ UNCHANGED <<projects, recordings, analyses, nextId, nOps, everRec, everAna,
                 failures, dbInstance, opens, recognizer, engine>>

\* updateProject, lines 603-610: store.put(updated)
UpPut(p) ==
  /\ task[p].pc = "up_put"
  /\ projects' = Put(projects, task[p].obj.id, serializeProject(task[p].obj))
  /\ LET t == task[p]
     IN task' = [task EXCEPT ![p] =
          IF t.upRet = "done" THEN Resolve(t, t.obj) ELSE [t EXCEPT !.pc = t.upRet]]
  /\ UNCHANGED <<recordings, analyses, now, nextId, nOps, everRec, everAna, failures,
                 dbInstance, opens, recognizer, engine>>

\* ordered by the rule of lines 613-630: recordings first, then the project
deleteProject(p, budget) ==
  /\ CanStart(p, budget)
  /\ \E id \in ProjectIdsSeen :
       Begin(p, [Idle EXCEPT !.op = "deleteProject", !.pc = "dp_getRecordings",
                             !.arg = id])
  /\ UNCHANGED <<projects, recordings, analyses, now, nextId, everRec, everAna,
                 failures, dbInstance, opens, recognizer, engine>>

\* a deleteProject that goes straight to the delete of the project record
NextRecordingNoCascade(t, recs) == [t EXCEPT !.pc = "dp_delete", !.recs = <<>>]

\* the next recording of the loop of lines 618-620, or the final delete
NextRecording(t, recs) ==
  IF recs = <<>> THEN [t EXCEPT !.pc = "dp_delete", !.recs = <<>>]
  ELSE [t EXCEPT !.pc = "dr_getAnalyses", !.rid = Head(recs).id, !.recs = Tail(recs)]

\* a deleteProject that deletes the project record before its recordings
DpGetRecordingsParentFirst(p) ==
  /\ task[p].pc = "dp_getRecordings"
  /\ \E s \in getRecordingsByProject(recordings, task[p].arg) :
       task' = [task EXCEPT ![p] = NextRecording(task[p], s)]
  /\ projects' = Delete(projects, task[p].arg)
  /\ UNCHANGED <<recordings, analyses, now, nextId, nOps, everRec, everAna, failures,
                 dbInstance, opens, recognizer, engine>>

DpGetRecordings(p) ==
  /\ task[p].pc = "dp_getRecordings"
  /\ \E s \in getRecordingsByProject(recordings, task[p].arg) :
       task' = [task EXCEPT ![p] = NextRecording(task[p], s)]
  /\ UNCHANGED <<projects, recordings, analyses, now, nextId, nOps, everRec, everAna,
                 failures, dbInstance, opens, recognizer, engine>>

DpDelete(p) ==
  /\ task[p].pc = "dp_delete"
  /\ projects' = Delete(projects, task[p].arg)
  /\ task' = [task EXCEPT ![p] = Resolve(task[p], Str("true"))]
  /\ UNCHANGED <<recordings, analyses, now, nextId, nOps, everRec, everAna, failures,
                 dbInstance, opens, recognizer, engine>>

\* -------------------------------------------------------- Recording CRUD
\* lines 636-653, called with input.source = source
createRecording(p, budget, source) ==
  /\ CanStart(p, budget)
  /\ nextId < MaxIds
  /\ \E pid \in ProjectIdsSeen, d \in Durations, blob \in AudioBlobs,
        t \in ClockReads :
       LET id == generateId(t, nextId + 1)
           recording == [id |-> id, projectId |-> pid, createdAt |-> DateV(t),
                         duration |-> d, audioBlob |-> blob,
                         source |-> Str(source), transcript |-> Absent,
                         transcribedAt |-> Absent, analysisIds |-> <<>>]
       IN /\ Begin(p, [Idle EXCEPT !.op = "createRecording",
                                   !.pc = "cr_getProject", !.arg = pid, !.pid = pid,
                                   !.newId = id, !.rec = recording])
          /\ now' = t
  /\ nextId' = nextId + 1
  /\ UNCHANGED <<projects, recordings, analyses, everRec, everAna, failures,
                 dbInstance, opens, recognizer, engine>>

\* a link patch that forgets the ids already linked
LinkPatchOverwrite(project, id) ==
  [name |-> project.name, status |-> project.status,
   createdAt |-> project.createdAt, recordingIds |-> Ids(<<id>>)]

\* lines 658-661: the patch is the whole project that was read, with the new
\* id appended to recordingIds
LinkPatch(project, id) ==
  [name |-> project.name, status |-> project.status,
   createdAt |-> project.createdAt,
   recordingIds |-> Ids(Append(project.recordingIds, id))]

CrGetProject(p) ==
  /\ task[p].pc = "cr_getProject"
  /\ LET project == GetProject(projects, task[p].pid)
         t == task[p]
     IN task' = [task EXCEPT ![p] =
          IF project = Null THEN [t EXCEPT !.pc = "cr_add"]
          ELSE [t EXCEPT !.pc = "up_get", !.upRet = "cr_add",
                         !.patch = LinkPatch(project, t.newId)]]
  /\ UNCHANGED <<projects, recordings, analyses, now, nextId, nOps, everRec, everAna,
                 failures, dbInstance, opens, recognizer, engine>>

\* an add that is skipped when the recording's project is not stored
CrAddLinkedOnly(p) ==
  /\ task[p].pc = "cr_add"
  /\ IF GetProject(projects, task[p].pid) = Null
     THEN UNCHANGED <<recordings, everRec>>
     ELSE /\ recordings' = Put(recordings, task[p].newId,
                               serializeRecording(task[p].rec))
          /\ everRec' = everRec \cup {task[p].newId}
  /\ task' = [task EXCEPT ![p] = Resolve(task[p], task[p].rec)]
  /\ UNCHANGED <<projects, analyses, now, nextId, nOps, everAna, failures, dbInstance,
                 opens, recognizer, engine>>

\* lines 664-671: store.add(recording)
CrAdd(p) ==
  /\ task[p].pc = "cr_add"
  /\ recordings' = Put(recordings, task[p].newId, serializeRecording(task[p].rec))
  /\ everRec' = everRec \cup {task[p].newId}
  /\ task' = [task EXCEPT ![p] = Resolve(task[p], task[p].rec)]
  /\ UNCHANGED <<projects, analyses, now, nextId, nOps, everAna, failures, dbInstance,
                 opens, recognizer, engine>>

updateRecordingTranscript(p, budget) ==
  /\ CanStart(p, budget)
  /\ \E id \in RecordingIdsSeen, transcript \in Transcripts :
       Begin(p, [Idle EXCEPT !.op = "updateRecordingTranscript", !.pc = "ut_get",
                             !.arg = id, !.rid = id, !.obj = transcript])
  /\ UNCHANGED <<projects, recordings, analyses, now, nextId, everRec, everAna,
                 failures, dbInstance, opens, recognizer, engine>>

UtGet(p) ==
  /\ task[p].pc = "ut_get"
  /\ LET existing == GetRecording(recordings, task[p].rid)
     IN IF existing = Null
        THEN /\ task' = [task EXCEPT ![p] = Resolve(task[p], Null)]
             /\ now' = now
        ELSE \E d \in ClockReads :
               /\ task' = [task EXCEPT ![p] =
                    [task[p] EXCEPT !.pc = "ut_put",
                       !.rec = [existing EXCEPT !.transcript = task[p].obj,
                                                !.transcribedAt = DateV(d)]]]
               /\ now' = d
  /\ UNCHANGED <<projects, recordings, analyses, nextId, nOps, everRec, everAna,
                 failures, dbInstance, opens, recognizer, engine>>

\* a put that also copies the new transcript into the recording's analyses
UtPutSyncSnapshots(p) ==
  /\ task[p].pc = "ut_put"
  /\ recordings' = Put(recordings, task[p].rec.id, serializeRecording(task[p].rec))
  /\ analyses' = [a \in DOMAIN analyses |->
                    IF analyses[a].recordingId = task[p].rec.id
                    THEN [analyses[a] EXCEPT
                            !.transcriptSnapshot = JsonValue(task[p].rec.transcript)]
                    ELSE analyses[a]]
  /\ task' = [task EXCEPT ![p] = Resolve(task[p], task[p].rec)]
  /\ UNCHANGED <<projects, now, nextId, nOps, everRec, everAna, failures, dbInstance,
                 opens, recognizer, engine>>

\* lines 721-728: store.put(updated)
UtPut(p) ==
  /\ task[p].pc = "ut_put"
  /\ recordings' = Put(recordings, task[p].rec.id, serializeRecording(task[p].rec))
  /\ task' = [task EXCEPT ![p] = Resolve(task[p], task[p].rec)]
  /\ UNCHANGED <<projects, analyses, now, nextId, nOps, everRec, everAna, failures,
                 dbInstance, opens, recognizer, engine>>

deleteRecording(p, budget) ==
  /\ CanStart(p, budget)
  /\ \E id \in RecordingIdsSeen :
       Begin(p, [Idle EXCEPT !.op = "deleteRecording", !.pc = "dr_getAnalyses",
                             !.arg = id, !.rid = id])
  /\ UNCHANGED <<projects, recordings, analyses, now, nextId, everRec, everAna,
                 failures, dbInstance, opens, recognizer, engine>>

\* the next analysis of the loop of lines 736-738, or the lookup of line 741
NextAnalysis(t, anas) ==
  IF anas = <<>> THEN [t EXCEPT !.pc = "dr_getRecording", !.anas = <<>>]
  ELSE [t EXCEPT !.pc = "dr_deleteAnalysis", !.anas = anas]

DrGetAnalyses(p) ==
  /\ task[p].pc = "dr_getAnalyses"
  /\ \E s \in getAnalysesByRecording(analyses, task[p].rid) :
       task' = [task EXCEPT ![p] = NextAnalysis(task[p], s)]
  /\ UNCHANGED <<projects, recordings, analyses, now, nextId, nOps, everRec, everAna,
                 failures, dbInstance, opens, recognizer, engine>>

DrDeleteAnalysis(p) ==
  /\ task[p].pc = "dr_deleteAnalysis"
  /\ analyses' = Delete(analyses, Head(task[p].anas).id)
  /\ task' = [task EXCEPT ![p] = NextAnalysis(task[p], Tail(task[p].anas))]
  /\ UNCHANGED <<projects, recordings, now, nextId, nOps, everRec, everAna, failures,
                 dbInstance, opens, recognizer, engine>>

DrGetRecording(p) ==
  /\ task[p].pc = "dr_getRecording"
  /\ LET recording == GetRecording(recordings, task[p].rid)
     IN task' = [task EXCEPT ![p] =
          IF recording = Null THEN [task[p] EXCEPT !.pc = "dr_delete"]
          ELSE [task[p] EXCEPT !.pc = "dr_getProject", !.pid = recording.projectId]]
  /\ UNCHANGED <<projects, recordings, analyses, now, nextId, nOps, everRec, everAna,
                 failures, dbInstance, opens, recognizer, engine>>

\* a filter that keeps every id
WithoutNothing(s, id) == s

\* project.recordingIds.filter(rid => rid !== id)
RECURSIVE Without(_, _)
Without(s, id) ==
  IF s = <<>> THEN <<>>
  ELSE IF Head(s) = id THEN Without(Tail(s), id)
  ELSE <<Head(s)>> \o Without(Tail(s), id)

DrGetProject(p) ==
  /\ task[p].pc = "dr_getProject"
  /\ LET project == GetProject(projects, task[p].pid)
     IN task' = [task EXCEPT ![p] =
          IF project = Null THEN [task[p] EXCEPT !.pc = "dr_delete"]
          ELSE [task[p] EXCEPT !.pc = "up_get", !.upRet = "dr_delete",
                               !.patch = PatchRecordingIds(
                                     Without(project.recordingIds, task[p].rid))]]
  /\ UNCHANGED <<projects, recordings, analyses, now, nextId, nOps, everRec, everAna,
                 failures, dbInstance, opens, recognizer, engine>>

DrDelete(p) ==
  /\ task[p].pc = "dr_delete"
  /\ recordings' = Delete(recordings, task[p].rid)
  /\ task' = [task EXCEPT ![p] =
       IF task[p].op = "deleteProject" THEN NextRecording(task[p], task[p].recs)
       ELSE Resolve(task[p], Str("true"))]
  /\ UNCHANGED <<projects, analyses, now, nextId, nOps, everRec, everAna, failures,
                 dbInstance, opens, recognizer, engine>>

\* --------------------------------------------------------- Analysis CRUD
createAnalysis(p, budget) ==
  /\ CanStart(p, budget)
  /\ nextId < MaxIds
  /\ \E rid \in RecordingIdsSeen, pid \in ProjectIdsSeen, c \in Checklists,
        r \in Results, ts \in TranscriptSnapshots, t \in ClockReads :
       LET id == generateId(t, nextId + 1)
           analysis == [id |-> id, recordingId |-> rid, projectId |-> pid,
                        createdAt |-> DateV(t), checklistSnapshot |-> c,
                        result |-> r, transcriptSnapshot |-> ts]
       IN /\ Begin(p, [Idle EXCEPT !.op = "createAnalysis",
                                   !.pc = "ca_getRecording", !.arg = rid,
                                   !.rid = rid, !.pid = pid, !.newId = id,
                                   !.obj = analysis])
          /\ now' = t
  /\ nextId' = nextId + 1
  /\ UNCHANGED <<projects, recordings, analyses, everRec, everAna, failures,
                 dbInstance, opens, recognizer, engine>>

\* lines 786-793: the recording that was read, with the new id appended
CaGetRecording(p) ==
  /\ task[p].pc = "ca_getRecording"
  /\ LET recording == GetRecording(recordings, task[p].rid)
     IN task' = [task EXCEPT ![p] =
          IF recording = Null THEN [task[p] EXCEPT !.pc = "ca_add"]
          ELSE [task[p] EXCEPT !.pc = "ca_put",
                  !.rec = [recording EXCEPT
                             !.analysisIds = Append(recording.analysisIds,
                                                    task[p].newId)]]]
  /\ UNCHANGED <<projects, recordings, analyses, now, nextId, nOps, everRec, everAna,
                 failures, dbInstance, opens, recognizer, engine>>

\* line 790: store.put on 'recordings'; its transaction was created before
\* the one of the add
CaPut(p) ==
  /\ task[p].pc = "ca_put"
  /\ recordings' = Put(recordings, task[p].rec.id, serializeRecording(task[p].rec))
  /\ task' = [task EXCEPT ![p] = [task[p] EXCEPT !.pc = "ca_add"]]
  /\ UNCHANGED <<projects, analyses, now, nextId, nOps, everRec, everAna, failures,
                 dbInstance, opens, recognizer, engine>>

CaAdd(p) ==
  /\ task[p].pc = "ca_add"
  /\ analyses' = Put(analyses, task[p].newId, serializeAnalysis(task[p].obj))
  /\ everAna' = everAna \cup {task[p].newId}
  /\ task' = [task EXCEPT ![p] = Resolve(task[p], task[p].obj)]
  /\ UNCHANGED <<projects, recordings, now, nextId, nOps, everRec, failures,
                 dbInstance, opens, recognizer, engine>>

deleteAnalysis(p, budget) ==
  /\ CanStart(p, budget)
  /\ \E id \in AnalysisIdsSeen :
       Begin(p, [Idle EXCEPT !.op = "deleteAnalysis", !.pc = "da_delete", !.arg = id])
  /\ UNCHANGED <<projects, recordings, analyses, now, nextId, everRec, everAna,
                 failures, dbInstance, opens, recognizer, engine>>

DaDelete(p) ==
  /\ task[p].pc = "da_delete"
  /\ analyses' = Delete(analyses, task[p].arg)
  /\ task' = [task EXCEPT ![p] = Resolve(task[p], Str("true"))]
  /\ UNCHANGED <<projects, recordings, now, nextId, nOps, everRec, everAna, failures,
                 dbInstance, opens, recognizer, engine>>

\* ----------------------------------------------------------- statistics
Statuses == {"draft", "in_progress", "completed", "archived"}

\* lines 876-885 and 901: the counters before the loop
StatsInit(projs) ==
  [totalProjects |-> Len(projs), projectsByStatus |-> [x \in Statuses |-> 0],
   totalRecordings |-> 0, totalAnalyses |-> 0, totalRecordingDuration |-> 0]

\* a loop body that does not count the recordings of the project
StatsAddProjectNoCount(acc, project, recs) ==
  [acc EXCEPT !.projectsByStatus[project.status.s] = @ + 1]

\* lines 888-891
StatsAddProject(acc, project, recs) ==
  [acc EXCEPT !.projectsByStatus[project.status.s] = @ + 1,
              !.totalRecordings = @ + Len(recs)]

\* lines 894-896
StatsAddRecording(acc, recording, anas) ==
  [acc EXCEPT !.totalRecordingDuration = @ + recording.duration,
              !.totalAnalyses = @ + Len(anas)]

startGetProjectStats(p, budget) ==
  /\ CanStart(p, budget)
  /\ Begin(p, [Idle EXCEPT !.op = "getProjectStats", !.pc = "gs_getAll"])
  /\ UNCHANGED <<projects, recordings, analyses, now, nextId, everRec, everAna,
                 failures, dbInstance, opens, recognizer, engine>>

\* where the loops of lines 887-898 continue
StatsNext(t) ==
  IF t.recs # <<>> THEN [t EXCEPT !.pc = "gs_getAnalyses"]
  ELSE IF t.projs # <<>> THEN [t EXCEPT !.pc = "gs_getRecordings"]
  ELSE Resolve(t, t.acc)

\* a first request of getProjectStats that also stamps the projects it reads
GsGetAllTouch(p) ==
  /\ task[p].pc = "gs_getAll"
  /\ \E s \in getAllProjects(projects) :
       task' = [task EXCEPT ![p] =
                  StatsNext([task[p] EXCEPT !.projs = s, !.acc = StatsInit(s)])]
  /\ projects' = [id \in DOMAIN projects |->
                    [projects[id] EXCEPT !.updatedAt = IsoStr(now + 1)]]
  /\ UNCHANGED <<recordings, analyses, now, nextId, nOps, everRec, everAna, failures,
                 dbInstance, opens, recognizer, engine>>

GsGetAll(p) ==
  /\ task[p].pc = "gs_getAll"
  /\ \E s \in getAllProjects(projects) :
       task' = [task EXCEPT ![p] =
                  StatsNext([task[p] EXCEPT !.projs = s, !.acc = StatsInit(s)])]
  /\ UNCHANGED <<projects, recordings, analyses, now, nextId, nOps, everRec, everAna,
                 failures, dbInstance, opens, recognizer, engine>>

GsGetRecordings(p) ==
  /\ task[p].pc = "gs_getRecordings"
  /\ LET project == Head(task[p].projs)
     IN \E s \in getRecordingsByProject(recordings, project.id) :
          task' = [task EXCEPT ![p] =
                     StatsNext([task[p] EXCEPT !.projs = Tail(task[p].projs),
                                               !.recs = s,
                                               !.acc = StatsAddProject(task[p].acc,
                                                                       project, s)])]
  /\ UNCHANGED <<projects, recordings, analyses, now, nextId, nOps, everRec, everAna,
                 failures, dbInstance, opens, recognizer, engine>>

GsGetAnalyses(p) ==
  /\ task[p].pc = "gs_getAnalyses"
  /\ LET recording == Head(task[p].recs)
     IN \E s \in getAnalysesByRecording(analyses, recording.id) :
          task' = [task EXCEPT ![p] =
                     StatsNext([task[p] EXCEPT !.recs = Tail(task[p].recs),
                                               !.acc = StatsAddRecording(task[p].acc,
                                                                         recording, s)])]
  /\ UNCHANGED <<projects, recordings, analyses, now, nextId, nOps, everRec, everAna,
                 failures, dbInstance, opens, recognizer, engine>>

\* getProjectStats run to its end on the stores P, R, A with no writer between
\* its requests
RECURSIVE StatsOverRecordings(_, _, _)
StatsOverRecordings(acc, recs, A) ==
  IF recs = <<>> THEN acc
  ELSE StatsOverRecordings(
         StatsAddRecording(acc, Head(recs),
                           CHOOSE s \in getAnalysesByRecording(A, Head(recs).id) : TRUE),
         Tail(recs), A)

RECURSIVE StatsOverProjects(_, _, _, _)
StatsOverProjects(acc, projs, R, A) ==
  IF projs = <<>> THEN acc
  ELSE LET recs == CHOOSE s \in getRecordingsByProject(R, Head(projs).id) : TRUE
       IN StatsOverProjects(
            StatsOverRecordings(StatsAddProject(acc, Head(projs), recs), recs, A),
            Tail(projs), R, A)

getProjectStats(P, R, A) ==
  LET projs == CHOOSE s \in getAllProjects(P) : TRUE
  IN StatsOverProjects(StatsInit(projs), projs, R, A)

\* --------------------------------------------------------------- export
\* const { audioBlob, ...recordingWithoutBlob } = recording
WithoutKey(x, key) == [f \in DOMAIN x \ {key} |-> x[f]]

startExportAllData(p, budget) ==
  /\ CanStart(p, budget)
  /\ Begin(p, [Idle EXCEPT !.op = "exportAllData", !.pc = "ex_getAll"])
  /\ UNCHANGED <<projects, recordings, analyses, now, nextId, everRec, everAna,
                 failures, dbInstance, opens, recognizer, engine>>

\* where the loops of lines 922-932 continue: the next recording is pushed
\* without its audioBlob and its analyses are requested, or the next
\* project's recordings are requested, or the collected arrays are returned
ExportNext(t) ==
  IF t.recs # <<>>
  THEN [t EXCEPT !.pc = "ex_getAnalyses",
                 !.acc.recordings = Append(@, WithoutKey(Head(t.recs), "audioBlob"))]
  ELSE IF t.projs # <<>> THEN [t EXCEPT !.pc = "ex_getRecordings"]
  ELSE Resolve(t, t.acc)

ExGetAll(p) ==
  /\ task[p].pc = "ex_getAll"
  /\ \E s \in getAllProjects(projects) :
       task' = [task EXCEPT ![p] =
                  ExportNext([task[p] EXCEPT
                                !.projs = s,
                                !.acc = [projects |-> s, recordings |-> <<>>,
                                         analyses |-> <<>>]])]
  /\ UNCHANGED <<projects, recordings, analyses, now, nextId, nOps, everRec, everAna,
                 failures, dbInstance, opens, recognizer, engine>>

ExGetRecordings(p) ==
  /\ task[p].pc = "ex_getRecordings"
  /\ \E s \in getRecordingsByProject(recordings, Head(task[p].projs).id) :
       task' = [task EXCEPT ![p] =
                  ExportNext([task[p] EXCEPT !.projs = Tail(task[p].projs),
                                            !.recs = s])]
  /\ UNCHANGED <<projects, recordings, analyses, now, nextId, nOps, everRec, everAna,
                 failures, dbInstance, opens, recognizer, engine>>

ExGetAnalyses(p) ==
  /\ task[p].pc = "ex_getAnalyses"
  /\ \E s \in getAnalysesByRecording(analyses, Head(task[p].recs).id) :
       task' = [task EXCEPT ![p] =
                  ExportNext([task[p] EXCEPT !.recs = Tail(task[p].recs),
                                            !.acc.analyses = @ \o s])]
  /\ UNCHANGED <<projects, recordings, analyses, now, nextId, nOps, everRec, everAna,
                 failures, dbInstance, opens, recognizer, engine>>

\* ------------------------------------------------------- specifications
\* the operations of the store; no store function reads source, so here
\* createRecording is called with one source
Op(p, budget) ==
  \/ createProject(p, budget) \/ CpAdd(p)
  \/ updateProject(p, budget) \/ UpGet(p) \/ UpPut(p)
  \/ deleteProject(p, budget) \/ DpGetRecordings(p) \/ DpDelete(p)
  \/ createRecording(p, budget, "uploaded") \/ CrGetProject(p) \/ CrAdd(p)
  \/ updateRecordingTranscript(p, budget) \/ UtGet(p) \/ UtPut(p)
  \/ deleteRecording(p, budget) \/ DrGetAnalyses(p) \/ DrDeleteAnalysis(p)
  \/ DrGetRecording(p) \/ DrGetProject(p) \/ DrDelete(p)
  \/ createAnalysis(p, budget) \/ CaGetRecording(p) \/ CaPut(p) \/ CaAdd(p)
  \/ deleteAnalysis(p, budget) \/ DaDelete(p)
  \/ startGetProjectStats(p, budget) \/ GsGetAll(p) \/ GsGetRecordings(p)
  \/ GsGetAnalyses(p)
  \/ startExportAllData(p, budget) \/ ExGetAll(p) \/ ExGetRecordings(p)
  \/ ExGetAnalyses(p)
  \/ Return(p)

\* one caller that awaits every operation before it starts the next
NextSeq == Op(1, MaxSeqOps)
SpecSeq == Init /\ [][NextSeq]_vars

\* callers whose operations overlap
Next == \E p \in Procs : Op(p, MaxOps)
Spec == Init /\ [][Next]_vars

\* -------------------------------------------------------- the save paths
\* AudioRecorder.tsx lines 247-290: the recording made in the page is saved
saveRecordingToProject(p, budget) ==
  /\ ProjectIdsSeen # {}                      \* line 248: a project is selected
  /\ createRecording(p, budget, "realtime")

\* AudioRecorder.tsx lines 393-437: the imported audio file is saved
saveImportedRecordingToProject(p, budget) ==
  /\ ProjectIdsSeen # {}                      \* line 394
  /\ createRecording(p, budget, "import")

\* ProjectsPage.tsx lines 501-546: the file chosen on the project page is saved
handleFileUpload(p, budget) ==
  /\ ProjectIdsSeen # {}                      \* line 503
  /\ createRecording(p, budget, "uploaded")

\* AudioRecorder.tsx lines 343-365: the imported audio is given to
\* analyzeAudioWithGemini, with a project selected
analyzeImportedAudio(p, budget) ==
  /\ CanStart(p, budget)
  /\ \E pid \in ProjectIdsSeen :
       Begin(p, [Idle EXCEPT !.op = "analyzeImportedAudio", !.pc = "ai_analyze",
                             !.arg = pid, !.pid = pid])
  /\ UNCHANGED <<projects, recordings, analyses, now, nextId, everRec, everAna,
                 failures, dbInstance, opens, recognizer, engine>>

\* AudioRecorder.tsx lines 367-378 and 393-418: the result is shown and kept
\* in the component's state, then saveImportedRecordingToProject calls
\* createRecording
AiAnalyzed(p) ==
  /\ task[p].pc = "ai_analyze"
  /\ nextId < MaxIds
  /\ \E result \in Results, d \in Durations, blob \in AudioBlobs, t \in ClockReads :
       LET id == generateId(t, nextId + 1)
           recording == [id |-> id, projectId |-> task[p].pid,
                         createdAt |-> DateV(t), duration |-> d, audioBlob |-> blob,
                         source |-> Str("import"), transcript |-> Absent,
                         transcribedAt |-> Absent, analysisIds |-> <<>>]
       IN /\ task' = [task EXCEPT ![p] =
                        [task[p] EXCEPT !.pc = "cr_getProject", !.newId = id,
                                        !.rec = recording, !.acc = result]]
          /\ now' = t
  /\ nextId' = nextId + 1
  /\ UNCHANGED <<projects, recordings, analyses, nOps, everRec, everAna, failures,
                 dbInstance, opens, recognizer, engine>>

\* AudioRecorder.tsx lines 379-386, ProjectsPage.tsx lines 601-606: the
\* analysis throws, the handler reports the error and stores nothing
AnalysisError(p) ==
  /\ task[p].pc \in {"ai_analyze", "ha_analyze"}
  /\ task' = [task EXCEPT ![p] = Reject(task[p], RequestError(task[p].pc))]
  /\ UNCHANGED <<projects, recordings, analyses, now, nextId, nOps, everRec, everAna,
                 failures, dbInstance, opens, recognizer, engine>>

\* ProjectsPage.tsx lines 580-590: a recording listed on the project page is
\* given to analyzeAudioWithGemini
handleAnalyzeRecording(p, budget) ==
  /\ CanStart(p, budget)
  /\ \E r \in DOMAIN recordings :
       Begin(p, [Idle EXCEPT !.op = "handleAnalyzeRecording", !.pc = "ha_analyze",
                             !.arg = r, !.rid = r, !.pid = recordings[r].projectId])
  /\ UNCHANGED <<projects, recordings, analyses, now, nextId, everRec, everAna,
                 failures, dbInstance, opens, recognizer, engine>>

\* ProjectsPage.tsx lines 592-600: the result is shown in the chat and the
\* page reloads its data
HaAnalyzed(p) ==
  /\ task[p].pc = "ha_analyze"
  /\ \E result \in Results :
       task' = [task EXCEPT ![p] = Resolve([task[p] EXCEPT !.acc = result], result)]
  /\ UNCHANGED <<projects, recordings, analyses, now, nextId, nOps, everRec, everAna,
                 failures, dbInstance, opens, recognizer, engine>>

\* one user who creates projects, uploads recordings and runs analyses
NextAnalyze ==
  \/ createProject(1, MaxSeqOps) \/ CpAdd(1)
  \/ handleFileUpload(1, MaxSeqOps)
  \/ analyzeImportedAudio(1, MaxSeqOps) \/ AiAnalyzed(1)
  \/ handleAnalyzeRecording(1, MaxSeqOps) \/ HaAnalyzed(1)
  \/ AnalysisError(1)
  \/ CrGetProject(1) \/ UpGet(1) \/ UpPut(1) \/ CrAdd(1)
  \/ Return(1)
SpecAnalyze == Init /\ [][NextAnalyze]_vars

\* one user who creates projects and saves recordings to them
NextSave ==
  \/ createProject(1, MaxSeqOps) \/ CpAdd(1)
  \/ saveRecordingToProject(1, MaxSeqOps)
  \/ saveImportedRecordingToProject(1, MaxSeqOps)
  \/ handleFileUpload(1, MaxSeqOps)
  \/ CrGetProject(1) \/ UpGet(1) \/ UpPut(1) \/ CrAdd(1)
  \/ Return(1)
SpecSave == Init /\ [][NextSave]_vars

\* ------------------------------------------------------- the connection
\* request.result of the n-th indexedDB.open request: every successful open
\* request yields a connection object of its own
Connection(n) == [k |-> "IDBDatabase", n |-> n]

\* lines 425-431: the kept handle is returned when there is one, otherwise
\* a new open request is issued
openDatabase(p, budget) ==
  /\ CanStart(p, budget)
  /\ IF dbInstance # Null
     THEN /\ Begin(p, Resolve([Idle EXCEPT !.op = "openDatabase"], dbInstance))
          /\ opens' = opens
     ELSE /\ Begin(p, [Idle EXCEPT !.op = "openDatabase", !.pc = "od_open",
                                   !.req = Len(opens) + 1])
          /\ opens' = Append(opens, "pending")
  /\ UNCHANGED <<projects, recordings, analyses, now, nextId, everRec, everAna,
                 failures, dbInstance, recognizer, engine>>

\* lines 438-441: request.onsuccess keeps the connection and resolves with it
OdSuccess(p) ==
  /\ task[p].pc = "od_open"
  /\ dbInstance' = Connection(task[p].req)
  /\ opens' = [opens EXCEPT ![task[p].req] = "success"]
  /\ task' = [task EXCEPT ![p] = Resolve(task[p], Connection(task[p].req))]
  /\ UNCHANGED <<projects, recordings, analyses, now, nextId, nOps, everRec, everAna,
                 failures, recognizer, engine>>

\* lines 433-436: request.onerror rejects with request.error
OdError(p) ==
  /\ task[p].pc = "od_open"
  /\ opens' = [opens EXCEPT ![task[p].req] = "error"]
  /\ task' = [task EXCEPT ![p] = Reject(task[p], RequestError("od_open"))]
  /\ UNCHANGED <<projects, recordings, analyses, now, nextId, nOps, everRec, everAna,
                 failures, dbInstance, recognizer, engine>>

\* callers that ask for the connection, as every store function does first
NextOpen ==
  \E p \in Procs : openDatabase(p, MaxOps) \/ OdSuccess(p) \/ OdError(p) \/ Return(p)
SpecOpen == Init /\ [][NextOpen]_vars

\* ------------------------------------------------ requests that fail
\* request.onerror = () => reject(request.error): the request a call waits
\* for fails, the rejection passes through every await up to the caller
\* and what earlier requests committed stays.  The put of createAnalysis
\* (line 790) has no handler: its failure goes unnoticed and the call goes on.
Fail(p) ==
  /\ task[p].pc \notin {"idle", "done", "failed"}
  /\ IF task[p].pc = "ca_put"
     THEN /\ task' = [task EXCEPT ![p] = [task[p] EXCEPT !.pc = "ca_add"]]
          /\ failures' = failures
     ELSE /\ task' = [task EXCEPT ![p] =
                        Reject(task[p], RequestError(task[p].pc))]
          /\ failures' = failures \cup
                 {[op |-> task[p].op, error |-> RequestError(task[p].pc),
                   changed |-> Snapshot # task[p].pre]}
  /\ UNCHANGED <<projects, recordings, analyses, now, nextId, nOps, everRec, everAna,
                 dbInstance, opens, recognizer, engine>>

\* one caller, one operation at a time, any request may fail
NextFail == Op(1, MaxSeqOps) \/ Fail(1)
SpecFail == Init /\ [][NextFail]_vars

\* the call stops at the request it waits for, because the request fails or
\* the page goes away: nothing more of the call runs, and what its earlier
\* requests committed stays
Stop(p) ==
  /\ task[p].pc \notin {"idle", "done", "failed"}
  /\ task' = [task EXCEPT ![p] = Reject(task[p], RequestError(task[p].pc))]
  /\ UNCHANGED <<projects, recordings, analyses, now, nextId, nOps, everRec, everAna,
                 failures, dbInstance, opens, recognizer, engine>>

\* one caller that builds projects, recordings and analyses and deletes
\* them, with calls that may stop between their steps
NextCascade ==
  \/ createProject(1, MaxSeqOps) \/ CpAdd(1)
  \/ createRecording(1, MaxSeqOps, "uploaded") \/ CrGetProject(1) \/ CrAdd(1)
  \/ UpGet(1) \/ UpPut(1)
  \/ createAnalysis(1, MaxSeqOps) \/ CaGetRecording(1) \/ CaPut(1) \/ CaAdd(1)
  \/ deleteProject(1, MaxSeqOps) \/ DpGetRecordings(1) \/ DpDelete(1)
  \/ deleteRecording(1, MaxSeqOps) \/ DrGetAnalyses(1) \/ DrDeleteAnalysis(1)
  \/ DrGetRecording(1) \/ DrGetProject(1) \/ DrDelete(1)
  \/ Stop(1)
  \/ Return(1)
SpecCascade == Init /\ [][NextCascade]_vars

\* ------------------------------------------------- the codec on its own
\* strings and dates an entity may hold
StringValues == {Str("Acme"), IsoStr(0), LocalStr(0), BadStr("2024-99-99T99:99:99")}
DateValues == {DateV(t) : t \in 0..MaxTime}

ProjectShapes ==
  [id : {generateId(0, 1)}, name : StringValues, status : {Str("draft")},
   createdAt : DateValues, updatedAt : DateValues, recordingIds : {<<>>}]

RecordingShapes ==
  [id : {generateId(0, 1)}, projectId : {NoId}, createdAt : DateValues,
   duration : Durations, audioBlob : AudioBlobs, source : {Str("uploaded")},
   transcript : StringValues \cup {Absent},
   transcribedAt : DateValues \cup {Absent}, analysisIds : {<<>>}]

AnalysisShapes ==
  [id : {generateId(0, 1)}, recordingId : {NoId}, projectId : {NoId},
   createdAt : DateValues, checklistSnapshot : Checklists, result : Results,
   transcriptSnapshot : StringValues \cup TranscriptSnapshots]

Entities == ProjectShapes \cup RecordingShapes \cup AnalysisShapes

\* an entity x is about to be written and read back
InitCodec ==
  /\ projects = Empty /\ recordings = Empty /\ analyses = Empty
  /\ now = 0 /\ nextId = 0 /\ nOps = 0
  /\ everRec = {} /\ everAna = {} /\ failures = {}
  /\ dbInstance = Null /\ opens = <<>>
  /\ recognizer = NewRecognizer /\ engine = NewEngine(TRUE)
  /\ \E x \in Entities :
       task = [p \in Procs |->
                 IF p = 1 THEN [Idle EXCEPT !.op = "roundTrip", !.pc = "rt_serialize",
                                            !.obj = x]
                 ELSE Idle]

RtSerialize ==
  /\ task[1].pc = "rt_serialize"
  /\ task' = [task EXCEPT ![1] = [task[1] EXCEPT !.pc = "rt_deserialize",
                                     !.rec = serializeForStorage(task[1].obj)]]
  /\ UNCHANGED <<projects, recordings, analyses, now, nextId, nOps, everRec, everAna,
                 failures, dbInstance, opens, recognizer, engine>>

RtDeserialize ==
  /\ task[1].pc = "rt_deserialize"
  /\ task' = [task EXCEPT ![1] = Resolve(task[1], deserializeFromStorage(task[1].rec))]
  /\ UNCHANGED <<projects, recordings, analyses, now, nextId, nOps, everRec, everAna,
                 failures, dbInstance, opens, recognizer, engine>>

NextCodec == RtSerialize \/ RtDeserialize
SpecCodec == InitCodec /\ [][NextCodec]_vars

\* ------------------------------------------------- the keyword analysis
\* strings are sequences of characters
MaxItems == 2       \* items of a checklist

Lower(c) == IF c = "A" THEN "a" ELSE IF c = "B" THEN "b" ELSE c
toLowerCase(s) == [i \in 1..Len(s) |-> Lower(s[i])]

\* s.includes(k): k is a substring of s; the empty string is one of every s
includes(s, k) == \E i \in 0..(Len(s) - Len(k)) : SubSeq(s, i + 1, i + Len(k)) = k

\* the transcripts and the checklist items the analysis is applied to
SpokenTexts == {<<>>, <<"a", "B">>, <<"b", "a", "c">>}
KeywordLists ==
  {<<>>, <<<<"A", "b">>>>, <<<<"d">>>>, <<<<"A", "b">>, <<"d">>>>,
   <<<<"d">>, <<"c">>, <<"d">>>>, <<<<"a", "b">>, <<"c">>>>}
ItemInputs == [keywords : KeywordLists]
ItemLists == UNION {[1..n -> ItemInputs] : n \in 0..MaxItems}
ChecklistInputs ==
  {<<[items |-> a]>> : a \in ItemLists} \cup
  {<<[items |-> a], [items |-> b]>> :
     <<a, b>> \in {x \in ItemLists \X ItemLists : Len(x[1]) + Len(x[2]) <= MaxItems}}

\* checklist.categories.flatMap(cat => cat.items)
RECURSIVE allItems(_)
allItems(categories) ==
  IF categories = <<>> THEN <<>>
  ELSE Head(categories).items \o allItems(Tail(categories))

\* lines 183-185: the keywords of the item that the transcript includes,
\* both in lower case
RECURSIVE keywordMatches(_, _)
keywordMatches(keywords, transcriptLower) ==
  IF keywords = <<>> THEN <<>>
  ELSE (IF includes(transcriptLower, toLowerCase(Head(keywords)))
        THEN <<Head(keywords)>> ELSE <<>>)
       \o keywordMatches(Tail(keywords), transcriptLower)

Max(a, b) == IF a >= b THEN a ELSE b

\* a threshold that asks for more than half of the keywords
MatchStatusMoreThanHalf(matches, keywords) ==
  IF 2 * matches > Max(keywords, 1) THEN "covered"
  ELSE IF matches > 0 THEN "partial"
  ELSE "missing"

\* lines 187-196: matchRatio = matches / Math.max(keywords, 1), compared
\* with 0.5 and with 0
MatchStatus(matches, keywords) ==
  IF 2 * matches >= Max(keywords, 1) THEN "covered"
  ELSE IF matches > 0 THEN "partial"
  ELSE "missing"

\* Math.round(numerator / denominator), the halves rounded up; 0 / 0 is NaN
NaN == [k |-> "NaN"]
MathRound(numerator, denominator) ==
  IF denominator = 0 THEN NaN
  ELSE (2 * numerator + denominator) \div (2 * denominator)

CountStatus(results, status) ==
  Cardinality({i \in 1..Len(results) : results[i].status = status})

\* lines 208-221: the counts and the rate of a list of results (summary
\* and recommendations are texts made from them)
AnalysisResult(results) ==
  [totalItems |-> Len(results),
   coveredItems |-> CountStatus(results, "covered"),
   missingItems |-> CountStatus(results, "missing"),
   partialItems |-> CountStatus(results, "partial"),
   coverageRate |-> MathRound(100 * CountStatus(results, "covered"), Len(results)),
   results |-> results]

\* lines 177-222
fallbackAnalysis(transcript, checklist) ==
  LET items == allItems(checklist)
      transcriptLower == toLowerCase(transcript)
  IN AnalysisResult(
       [i \in 1..Len(items) |->
          [item |-> items[i],
           status |-> MatchStatus(
                        Len(keywordMatches(items[i].keywords, transcriptLower)),
                        Len(items[i].keywords))]])

\* fallbackAnalysis is about to be applied to a transcript and a checklist
InitFallback ==
  /\ projects = Empty /\ recordings = Empty /\ analyses = Empty
  /\ now = 0 /\ nextId = 0 /\ nOps = 0
  /\ everRec = {} /\ everAna = {} /\ failures = {}
  /\ dbInstance = Null /\ opens = <<>>
  /\ recognizer = NewRecognizer /\ engine = NewEngine(TRUE)
  /\ \E transcript \in SpokenTexts, checklist \in ChecklistInputs :
       task = [p \in Procs |->
                 IF p = 1
                 THEN [Idle EXCEPT !.op = "fallbackAnalysis", !.pc = "fa_run",
                                   !.obj = [transcript |-> transcript,
                                            checklist |-> checklist]]
                 ELSE Idle]

FaRun ==
  /\ task[1].pc = "fa_run"
  /\ task' = [task EXCEPT ![1] =
                Resolve(task[1], fallbackAnalysis(task[1].obj.transcript,
                                                  task[1].obj.checklist))]
  /\ UNCHANGED <<projects, recordings, analyses, now, nextId, nOps, everRec, everAna,
                 failures, dbInstance, opens, recognizer, engine>>

NextFallback == FaRun
SpecFallback == InitFallback /\ [][NextFallback]_vars

\* --------------------------------------------------- the Gemini analysis
\* JSON.parse of the response text throws
SyntaxError == [k |-> "SyntaxError"]

\* parsed.results of a response: results found by itemIndex, with a status
\* that the response chose
ResultLists ==
  {<<>>,
   <<[itemIndex |-> 0, status |-> "covered"]>>,
   <<[itemIndex |-> 1, status |-> "partial"], [itemIndex |-> 0, status |-> "unsure"]>>}

\* what JSON.parse makes of a response text: it throws, or returns null, an
\* object without results, or an object with results
ParsedValues ==
  {SyntaxError, Null, [results |-> Absent]} \cup
  {[results |-> [k |-> "array", v |-> rs]] : rs \in ResultLists}

\* how the request of lines 49-78 ends: fetch rejects, the response is not
\* ok, the response has no text, or it has a text
FetchOutcomes ==
  {[k |-> "rejected"], [k |-> "notOk"], [k |-> "ok", parsed |-> Absent]} \cup
  {[k |-> "ok", parsed |-> v] : v \in ParsedValues}

\* lines 142-148: parsed.results?.find(r => r.itemIndex === index), then
\* resultItem?.status || 'missing'
RECURSIVE find(_, _)
find(results, index) ==
  IF results = <<>> THEN Absent
  ELSE IF Head(results).itemIndex = index THEN Head(results)
  ELSE find(Tail(results), index)

ResponseStatus(parsed, index) ==
  LET resultItem == IF parsed.results = Absent THEN Absent
                    ELSE find(parsed.results.v, index)
  IN IF resultItem = Absent THEN "missing" ELSE resultItem.status

\* lines 132-172: everything thrown between JSON.parse and the return is
\* caught and answered with fallbackAnalysis('', checklist)
parseGeminiResponse(parsed, checklist) ==
  IF parsed \in {SyntaxError, Null} THEN fallbackAnalysis(<<>>, checklist)
  ELSE LET items == allItems(checklist)
       IN AnalysisResult([i \in 1..Len(items) |->
                            [item |-> items[i],
                             status |-> ResponseStatus(parsed, i - 1)]])

\* analyzeWithGemini is about to be called with a transcript and a checklist,
\* with or without VITE_GEMINI_API_KEY
InitGemini ==
  /\ projects = Empty /\ recordings = Empty /\ analyses = Empty
  /\ now = 0 /\ nextId = 0 /\ nOps = 0
  /\ everRec = {} /\ everAna = {} /\ failures = {}
  /\ dbInstance = Null /\ opens = <<>>
  /\ recognizer = NewRecognizer /\ engine = NewEngine(TRUE)
  /\ \E transcript \in SpokenTexts, checklist \in ChecklistInputs,
        apiKey \in {Null, Str("key")} :
       task = [p \in Procs |->
                 IF p = 1
                 THEN [Idle EXCEPT !.op = "analyzeWithGemini", !.pc = "ag_getApiKey",
                                   !.obj = [transcript |-> transcript,
                                            checklist |-> checklist,
                                            apiKey |-> apiKey]]
                 ELSE Idle]

\* lines 39-44
AgGetApiKey ==
  /\ task[1].pc = "ag_getApiKey"
  /\ task' = [task EXCEPT ![1] =
       IF task[1].obj.apiKey = Null
       THEN Resolve([task[1] EXCEPT !.acc = [k |-> "noKey"]],
                    fallbackAnalysis(task[1].obj.transcript, task[1].obj.checklist))
       ELSE [task[1] EXCEPT !.pc = "ag_fetch"]]
  /\ UNCHANGED <<projects, recordings, analyses, now, nextId, nOps, everRec, everAna,
                 failures, dbInstance, opens, recognizer, engine>>

\* a request whose failed response is thrown to the caller
AgFetchThrows ==
  /\ task[1].pc = "ag_fetch"
  /\ \E outcome \in FetchOutcomes :
       task' = [task EXCEPT ![1] =
         IF outcome.k = "notOk"
         THEN Reject([task[1] EXCEPT !.acc = outcome], RequestError("ag_fetch"))
         ELSE IF outcome.k = "rejected" \/ outcome.parsed = Absent
         THEN Resolve([task[1] EXCEPT !.acc = outcome],
                      fallbackAnalysis(task[1].obj.transcript, task[1].obj.checklist))
         ELSE Resolve([task[1] EXCEPT !.acc = outcome],
                      parseGeminiResponse(outcome.parsed, task[1].obj.checklist))]
  /\ UNCHANGED <<projects, recordings, analyses, now, nextId, nOps, everRec, everAna,
                 failures, dbInstance, opens, recognizer, engine>>

\* lines 46-89: whatever is thrown in the try block (by fetch, for a response
\* that is not ok, for a response without text) is caught and answered with
\* fallbackAnalysis(transcript, checklist); a text goes to parseGeminiResponse
AgFetch ==
  /\ task[1].pc = "ag_fetch"
  /\ \E outcome \in FetchOutcomes :
       task' = [task EXCEPT ![1] =
         IF outcome.k \in {"rejected", "notOk"} \/ outcome.parsed = Absent
         THEN Resolve([task[1] EXCEPT !.acc = outcome],
                      fallbackAnalysis(task[1].obj.transcript, task[1].obj.checklist))
         ELSE Resolve([task[1] EXCEPT !.acc = outcome],
                      parseGeminiResponse(outcome.parsed, task[1].obj.checklist))]
  /\ UNCHANGED <<projects, recordings, analyses, now, nextId, nOps, everRec, everAna,
                 failures, dbInstance, opens, recognizer, engine>>

NextGemini == AgGetApiKey \/ AgFetch
SpecGemini == InitGemini /\ [][NextGemini]_vars

\* -------------------------------------------------- speech recognition
MaxEvents == 5      \* calls and events of one recognizer
MaxHeard == 2       \* characters of final results delivered after a start()

\* the results of one result event, from event.resultIndex on
SpeechResults ==
  LET Result == [isFinal : {TRUE}, transcript : {<<>>, <<"x">>, <<"y">>}] \cup
                [isFinal : {FALSE}, transcript : {<<"z">>}]
  IN {<<r>> : r \in Result} \cup {<<r, q>> : r \in Result, q \in Result}

\* the final results among the results the browser delivers, in their order
RECURSIVE Delivered(_)
Delivered(results) ==
  IF results = <<>> THEN <<>>
  ELSE IF Head(results).isFinal THEN Head(results).transcript \o Delivered(Tail(results))
  ELSE Delivered(Tail(results))

\* speechToText.ts lines 103-113: the texts of the final (or of the interim)
\* results of the event, concatenated
RECURSIVE resultsTranscript(_, _)
resultsTranscript(results, isFinal) ==
  IF results = <<>> THEN <<>>
  ELSE (IF Head(results).isFinal = isFinal THEN Head(results).transcript ELSE <<>>)
       \o resultsTranscript(Tail(results), isFinal)

\* recognition.start(): the browser starts listening, or throws
\* InvalidStateError when recognition has started and not ended yet
StartedBy(e, caller) ==
  [e EXCEPT !.state = IF e.state = "inactive" THEN "active" ELSE e.state,
            !.startCalls = e.startCalls + 1, !.last = caller,
            !.events = e.events + 1]
Ran(e, caller) == [e EXCEPT !.last = caller, !.events = e.events + 1]

\* speechToText.ts lines 144-164
start ==
  /\ engine.events < MaxEvents
  /\ IF ~engine.available
     THEN /\ recognizer' = recognizer
          /\ engine' = Ran(engine, "start")
     ELSE /\ recognizer' = [isListening |-> TRUE, transcript |-> <<>>]
          /\ engine' = [StartedBy(engine, "start") EXCEPT !.heard = <<>>,
                                                         !.stopped = FALSE]
  /\ UNCHANGED <<projects, recordings, analyses, now, nextId, nOps, task, everRec,
                 everAna, failures, dbInstance, opens>>

\* speechToText.ts lines 169-173: recognition.stop() makes the browser
\* deliver what it still has and then end
stop ==
  /\ engine.events < MaxEvents
  /\ recognizer' = [recognizer EXCEPT !.isListening = FALSE]
  /\ engine' = [Ran(engine, "stop") EXCEPT
                  !.state = IF engine.state = "active" THEN "ending" ELSE engine.state,
                  !.stopped = TRUE, !.startCalls = 0]
  /\ UNCHANGED <<projects, recordings, analyses, now, nextId, nOps, task, everRec,
                 everAna, failures, dbInstance, opens>>

\* speechToText.ts lines 102-121: a result event
onresult ==
  /\ engine.events < MaxEvents
  /\ engine.state \in {"active", "ending"}
  /\ \E results \in SpeechResults :
       LET finalTranscript == resultsTranscript(results, TRUE)
           interimTranscript == resultsTranscript(results, FALSE)
       IN /\ Len(engine.heard) + Len(Delivered(results)) <= MaxHeard
          /\ recognizer' =
               IF finalTranscript # <<>>
               THEN [recognizer EXCEPT !.transcript = recognizer.transcript
                                                        \o finalTranscript]
               ELSE recognizer
          /\ engine' = [Ran(engine, "onresult") EXCEPT
                          !.heard = engine.heard \o Delivered(results),
                          !.shown = IF finalTranscript # <<>>
                                    THEN recognizer.transcript \o finalTranscript
                                    ELSE IF interimTranscript # <<>>
                                    THEN recognizer.transcript \o interimTranscript
                                    ELSE engine.shown]
  /\ UNCHANGED <<projects, recordings, analyses, now, nextId, nOps, task, everRec,
                 everAna, failures, dbInstance, opens>>

\* restart() called whether the recognizer is listening or not
onerrorRestartsAlways ==
  /\ engine.events < MaxEvents
  /\ engine.state \in {"active", "ending"}
  /\ \E error \in {"network", "no-speech", "aborted"} :
       engine' = [(IF error \in {"network", "no-speech"}
                   THEN StartedBy(engine, "onerror")
                   ELSE Ran(engine, "onerror")) EXCEPT !.state = "ending"]
  /\ UNCHANGED <<projects, recordings, analyses, now, nextId, nOps, task, everRec,
                 everAna, failures, dbInstance, opens, recognizer>>

\* speechToText.ts lines 123-131 and 178-186: an error event, which the
\* browser follows with an end event; restart() calls recognition.start()
\* while the recognizer is listening, and the call throws because
\* recognition has not ended yet
onerror ==
  /\ engine.events < MaxEvents
  /\ engine.state \in {"active", "ending"}
  /\ \E error \in {"network", "no-speech", "aborted"} :
       engine' = [(IF error \in {"network", "no-speech"} /\ recognizer.isListening
                   THEN StartedBy(engine, "onerror")
                   ELSE Ran(engine, "onerror")) EXCEPT !.state = "ending"]
  /\ UNCHANGED <<projects, recordings, analyses, now, nextId, nOps, task, everRec,
                 everAna, failures, dbInstance, opens, recognizer>>

\* speechToText.ts lines 133-138: the end event
onend ==
  /\ engine.events < MaxEvents
  /\ engine.state \in {"active", "ending"}
  /\ LET ended == [engine EXCEPT !.state = "inactive"]
     IN engine' = IF recognizer.isListening THEN StartedBy(ended, "onend")
                  ELSE Ran(ended, "onend")
  /\ UNCHANGED <<projects, recordings, analyses, now, nextId, nOps, task, everRec,
                 everAna, failures, dbInstance, opens, recognizer>>

\* a page with a recognizer, in a browser with or without the API
InitSpeech ==
  /\ projects = Empty /\ recordings = Empty /\ analyses = Empty
  /\ now = 0 /\ nextId = 0 /\ nOps = 0
  /\ everRec = {} /\ everAna = {} /\ failures = {}
  /\ dbInstance = Null /\ opens = <<>>
  /\ task = [p \in Procs |-> Idle]
  /\ recognizer = NewRecognizer
  /\ \E available \in BOOLEAN : engine = NewEngine(available)

NextSpeech == start \/ stop \/ onresult \/ onerror \/ onend
SpecSpeech == InitSpeech /\ [][NextSpeech]_vars

\* ------------------------------------------------------------ properties
\* the single caller of SpecSeq, and the stores as they were when its
\* operation was called
Caller == task[1]
Settled == Caller.pc \in {"idle", "done"}
Resolved(op) == Caller.pc = "done" /\ Caller.op = op

NoResult(orders) == \A s \in orders : Len(s) = 0
RecordingsOf(R, pid) == {r \in DOMAIN R : R[r].projectId = pid}
AnalysesOf(A, rid) == {a \in DOMAIN A : A[a].recordingId = rid}
Occurrences(s, x) == Cardinality({i \in 1..Len(s) : s[i] = x})
Elements(s) == {s[i] : i \in 1..Len(s)}

RECURSIVE IsSubsequence(_, _)
IsSubsequence(s, u) ==
  IF s = <<>> THEN TRUE
  ELSE IF u = <<>> THEN FALSE
  ELSE IF Head(s) = Head(u) THEN IsSubsequence(Tail(s), Tail(u))
  ELSE IsSubsequence(s, Tail(u))

\* C1: once deleteProject(id) has resolved, getProject(id) is null,
\* getRecordingsByProject(id) is empty and getAnalysesByRecording(r) is empty
\* for every recording r that had projectId = id when deleteProject was called.
C1_CascadeComplete ==
  Resolved("deleteProject") =>
    /\ GetProject(projects, Caller.arg) = Null
    /\ NoResult(getRecordingsByProject(recordings, Caller.arg))
    /\ \A r \in RecordingsOf(Caller.pre.recordings, Caller.arg) :
         NoResult(getAnalysesByRecording(analyses, r))

\* deleteProject has resolved for a stored project that had a recording with
\* an analysis
C1_Witness ==
  /\ Resolved("deleteProject")
  /\ Caller.arg \in DOMAIN Caller.pre.projects
  /\ \E r \in RecordingsOf(Caller.pre.recordings, Caller.arg) :
       AnalysesOf(Caller.pre.analyses, r) # {}

\* C2: after completed, non-overlapping store operations every stored
\* project's recordingIds has no duplicates and holds exactly the ids of the
\* stored recordings whose projectId is that project.
C2_RecordingIdsMirror ==
  Settled =>
    \A id \in DOMAIN projects :
      /\ \A x \in Elements(projects[id].recordingIds) :
           Occurrences(projects[id].recordingIds, x) = 1
      /\ Elements(projects[id].recordingIds) = RecordingsOf(recordings, id)

\* C3: after createRecording under a stored project, the project's
\* recordingIds holds the new id exactly once and the ids it held before, in
\* their former relative order.
C3_BackReference ==
  (Resolved("createRecording") /\ Caller.arg \in DOMAIN Caller.pre.projects) =>
    /\ Caller.arg \in DOMAIN projects
    /\ Occurrences(projects[Caller.arg].recordingIds, Caller.res.id) = 1
    /\ IsSubsequence(Caller.pre.projects[Caller.arg].recordingIds,
                     projects[Caller.arg].recordingIds)

\* createRecording has resolved under a project that already had a recording
C3_Witness ==
  /\ Resolved("createRecording")
  /\ Caller.arg \in DOMAIN Caller.pre.projects
  /\ Caller.pre.projects[Caller.arg].recordingIds # <<>>

\* C4: after completed, non-overlapping operations every stored recording's
\* analysisIds holds exactly the ids of the stored analyses whose recordingId
\* is that recording.
C4_AnalysisIdsMirror ==
  Settled =>
    \A id \in DOMAIN recordings :
      Elements(recordings[id].analysisIds) = AnalysesOf(analyses, id)

\* C5: after deleteRecording(r) of a stored recording under a stored project
\* the recording and its analyses are gone, r is not in the project's
\* recordingIds, the other ids are kept, and totalRecordings of
\* getProjectStats is one less than before.
C5_DeleteRecording ==
  (/\ Resolved("deleteRecording")
   /\ Caller.arg \in DOMAIN Caller.pre.recordings
   /\ Caller.pre.recordings[Caller.arg].projectId \in DOMAIN Caller.pre.projects) =>
    LET r == Caller.arg
        pid == Caller.pre.recordings[r].projectId
        before == Caller.pre.projects[pid].recordingIds
        statsBefore == getProjectStats(Caller.pre.projects, Caller.pre.recordings,
                                       Caller.pre.analyses)
        statsAfter == getProjectStats(projects, recordings, analyses)
    IN /\ GetRecording(recordings, r) = Null
       /\ NoResult(getAnalysesByRecording(analyses, r))
       /\ pid \in DOMAIN projects
       /\ r \notin Elements(projects[pid].recordingIds)
       /\ \A x \in Elements(before) \ {r} : x \in Elements(projects[pid].recordingIds)
       /\ statsAfter.totalRecordings = statsBefore.totalRecordings - 1

\* deleteRecording has resolved for a recording that had an analysis and was
\* listed by its stored project
C5_Witness ==
  /\ Resolved("deleteRecording")
  /\ Caller.arg \in DOMAIN Caller.pre.recordings
  /\ Caller.pre.recordings[Caller.arg].projectId \in DOMAIN Caller.pre.projects
  /\ AnalysesOf(Caller.pre.analyses, Caller.arg) # {}
  /\ Caller.arg \in
       Elements(Caller.pre.projects[Caller.pre.recordings[Caller.arg].projectId]
                  .recordingIds)

\* either caller's operation op has resolved
Done(p, op) == task[p].pc = "done" /\ task[p].op = op

\* C6: two read-modify-write operations on the same project are both
\* reflected by the stored project: of two updateProject calls with disjoint
\* patches both patched fields hold their new values, and of two
\* createRecording calls under the project both new ids are in recordingIds.
C6_NoLostUpdate ==
  \A p, q \in Procs :
    /\ (/\ Done(p, "updateProject") /\ Done(q, "updateProject")
        /\ task[p].arg = task[q].arg
        /\ task[p].patch = PatchName /\ task[q].patch = PatchStatus
        /\ task[p].arg \in DOMAIN task[p].pre.projects
        /\ task[p].arg \in DOMAIN task[q].pre.projects) =>
         /\ task[p].arg \in DOMAIN projects
         /\ projects[task[p].arg].name = PatchName.name
         /\ projects[task[p].arg].status = PatchStatus.status
    /\ (/\ p # q
        /\ Done(p, "createRecording") /\ Done(q, "createRecording")
        /\ task[p].arg = task[q].arg
        /\ task[p].arg \in DOMAIN task[p].pre.projects
        /\ task[p].arg \in DOMAIN task[q].pre.projects) =>
         /\ task[p].arg \in DOMAIN projects
         /\ {task[p].newId, task[q].newId}
              \subseteq Elements(projects[task[p].arg].recordingIds)

\* C7: no project's recordingIds ever contains an id for which no Recording
\* record has been stored, also while createRecording is suspended.
C7_StoredBeforeLinked ==
  \A id \in DOMAIN projects :
    Elements(projects[id].recordingIds) \subseteq everRec

\* the project id is, among the projects P, the one with the oldest updatedAt
Oldest(P, id) ==
  /\ id \in DOMAIN P
  /\ \A x \in DOMAIN P \ {id} : P[id].updatedAt.t < P[x].updatedAt.t

\* C8: getAllProjects returns every stored project exactly once, ordered by
\* updatedAt descending; after updateProject of the project with the oldest
\* updatedAt that project is the first element of the next getAllProjects.
C8_Ordering ==
  /\ Settled =>
       \A s \in getAllProjects(projects) :
         /\ \A id \in DOMAIN projects :
              Cardinality({i \in 1..Len(s) : s[i].id = id}) = 1
         /\ Len(s) = Cardinality(DOMAIN projects)
         /\ \A i, j \in 1..Len(s) : i < j => s[i].updatedAt.t >= s[j].updatedAt.t
  /\ (Resolved("updateProject") /\ Oldest(Caller.pre.projects, Caller.arg)) =>
       \A s \in getAllProjects(projects) : s[1].id = Caller.arg

\* over the projects ids, the sum of the number of recordings of each
RECURSIVE SumRecordingCounts(_, _)
SumRecordingCounts(ids, R) ==
  IF ids = {} THEN 0
  ELSE LET x == CHOOSE y \in ids : TRUE
       IN Cardinality(RecordingsOf(R, x)) + SumRecordingCounts(ids \ {x}, R)

\* over the recordings ids, the sum of their durations
RECURSIVE SumDurations(_, _)
SumDurations(ids, R) ==
  IF ids = {} THEN 0
  ELSE LET x == CHOOSE y \in ids : TRUE
       IN R[x].duration + SumDurations(ids \ {x}, R)

\* C9: getProjectStats with no concurrent writer returns the number of
\* stored projects as totalProjects and, as totalRecordings, the sum over
\* the stored projects of the number of recordings of
\* getRecordingsByProject.  (Its result is also the one of the uninterrupted
\* run getProjectStats(P, R, A) that C5 compares before and after.)
C9_StatsCounts ==
  Resolved("getProjectStats") =>
    /\ Caller.res.totalProjects = Cardinality(DOMAIN projects)
    /\ Caller.res.totalRecordings = SumRecordingCounts(DOMAIN projects, recordings)
    /\ Caller.res = getProjectStats(projects, recordings, analyses)

\* getProjectStats has resolved on a corpus of two projects, one of them
\* with a recording
C9_Witness ==
  /\ Resolved("getProjectStats")
  /\ Cardinality(DOMAIN projects) >= 2
  /\ \E id \in DOMAIN projects : RecordingsOf(recordings, id) # {}

\* C10: totalRecordingDuration of getProjectStats is the sum of duration over
\* all stored recordings, those of no stored project included.
C10_TotalDuration ==
  Resolved("getProjectStats") =>
    Caller.res.totalRecordingDuration = SumDurations(DOMAIN recordings, recordings)

\* C11: createRecording with a projectId that names no stored project resolves
\* with the created recording and leaves every stored project as it was;
\* afterwards getRecordingsByProject(projectId) returns the new recording and
\* no project's recordingIds contains its id.
C11_UnlinkedCreation ==
  (Resolved("createRecording") /\ Caller.arg \notin DOMAIN Caller.pre.projects) =>
    /\ Caller.res.id = Caller.newId
    /\ Caller.res.projectId = Caller.arg
    /\ projects = Caller.pre.projects
    /\ \A s \in getRecordingsByProject(recordings, Caller.arg) :
         Cardinality({i \in 1..Len(s) : s[i].id = Caller.res.id}) = 1
    /\ \A id \in DOMAIN projects :
         Caller.res.id \notin Elements(projects[id].recordingIds)

\* createRecording has resolved for a projectId of no stored project while a
\* project with a linked recording is stored
C11_Witness ==
  /\ Resolved("createRecording")
  /\ Caller.arg \notin DOMAIN Caller.pre.projects
  /\ \E id \in DOMAIN projects : projects[id].recordingIds # <<>>

\* C12: deleteProject(id), deleteRecording(id) and deleteAnalysis(id) return
\* true exactly when a record with that id was stored when they were called,
\* and false otherwise.
C12_DeleteReturnsExisted ==
  /\ Resolved("deleteProject") =>
       (Caller.res = Str("true") <=> Caller.arg \in DOMAIN Caller.pre.projects)
  /\ Resolved("deleteRecording") =>
       (Caller.res = Str("true") <=> Caller.arg \in DOMAIN Caller.pre.recordings)
  /\ Resolved("deleteAnalysis") =>
       (Caller.res = Str("true") <=> Caller.arg \in DOMAIN Caller.pre.analyses)

\* C13: updateProject(id, patch) of an id that is not stored returns null and
\* leaves the three stores unchanged; of a stored project it stores the
\* record in which the fields named in the patch hold the patch values, the
\* other fields (id, createdAt, recordingIds, ...) hold their stored values
\* and updatedAt is the current time, not earlier than the previous one, and
\* returns that record.
C13_UpdateProject ==
  Resolved("updateProject") =>
    IF Caller.arg \notin DOMAIN Caller.pre.projects
    THEN Caller.res = Null /\ Snapshot = Caller.pre
    ELSE LET old == Caller.pre.projects[Caller.arg]
             patch == Caller.patch
             Kept(f) == patch[f].k = "absent"
         IN /\ Caller.arg \in DOMAIN projects
            /\ LET new == projects[Caller.arg]
               IN /\ new.id = old.id /\ Caller.res.id = old.id
                  /\ new.name = IF Kept("name") THEN old.name ELSE patch.name
                  /\ new.status = IF Kept("status") THEN old.status ELSE patch.status
                  /\ new.createdAt = old.createdAt
                  /\ new.recordingIds = IF Kept("recordingIds") THEN old.recordingIds
                                        ELSE patch.recordingIds.v
                  /\ new.updatedAt = IsoStr(now)
                  /\ Caller.res.updatedAt = DateV(now)
                  /\ now >= old.updatedAt.t
                  /\ recordings = Caller.pre.recordings
                  /\ analyses = Caller.pre.analyses

\* C14: deserializeFromStorage(serializeForStorage(x)) equals x for every
\* Project, Recording and AnalysisRecord x: every temporal field is the same
\* point in time and every string field (name, transcript,
\* transcriptSnapshot) is the same string, also when its text starts like a
\* timestamp.  (The audioBlob is the subject of C15 and is left out here.)
C14_RoundTrip ==
  Resolved("roundTrip") =>
    WithoutKey(Caller.res, "audioBlob") = WithoutKey(Caller.obj, "audioBlob")

\* C15: the audioBlob never goes through JSON text: the audioBlob that
\* getRecording and getRecordingsByProject return is the one given to
\* createRecording, also after a later updateRecordingTranscript or
\* createAnalysis on the recording.
C15_AudioBlobPreserved ==
  /\ Resolved("createRecording") =>
       GetRecording(recordings, Caller.newId).audioBlob = Caller.rec.audioBlob
  /\ Settled =>
       \A id \in DOMAIN recordings :
         /\ GetRecording(recordings, id).audioBlob \in AudioBlobs
         /\ \A s \in getRecordingsByProject(recordings, recordings[id].projectId) :
              \A i \in 1..Len(s) : s[i].audioBlob \in AudioBlobs

\* C16: createAnalysis stores the AnalysisRecord and then appends its id to
\* the parent's analysisIds: once it has resolved for a stored recording the
\* recording's analysisIds holds the new id exactly once, and in no reachable
\* state does a recording's analysisIds hold an id whose AnalysisRecord was
\* never stored.
C16_StoredThenLinked ==
  /\ (Resolved("createAnalysis") /\ Caller.arg \in DOMAIN Caller.pre.recordings) =>
       /\ Caller.arg \in DOMAIN recordings
       /\ Occurrences(recordings[Caller.arg].analysisIds, Caller.res.id) = 1
  /\ \A id \in DOMAIN recordings :
       Elements(recordings[id].analysisIds) \subseteq everAna

Cascades == {"deleteProject", "deleteRecording"}

\* C17: when a step of deleteProject or deleteRecording fails after an earlier
\* step has committed, the call's outcome is an error that differs from the
\* error of a failed call that changed nothing (and it is not a success).
C17_PartialFailureDistinct ==
  \A f, g \in failures :
    (f.op \in Cascades /\ g.op \in Cascades /\ f.changed /\ ~g.changed) =>
      f.error # g.error

\* C18: createAnalysis never unsets or reverts a transcript: however
\* createAnalysis and updateRecordingTranscript on the same stored recording
\* interleave, once both have completed the stored transcript is the one
\* updateRecordingTranscript wrote and transcribedAt is set.
C18_TranscriptKept ==
  \A p, q \in Procs :
    (/\ Done(p, "updateRecordingTranscript") /\ Done(q, "createAnalysis")
     /\ task[p].arg = task[q].arg
     /\ task[p].res # Null
     /\ task[p].arg \in DOMAIN recordings) =>
      /\ recordings[task[p].arg].transcript = task[p].obj
      /\ recordings[task[p].arg].transcribedAt # Absent

\* C19: a stored AnalysisRecord is never modified: from its creation to its
\* removal no step of any store operation changes its id, recordingId,
\* projectId, createdAt, checklistSnapshot, result or transcriptSnapshot.
C19_AnalysisImmutable ==
  [][\A a \in DOMAIN analyses \cap DOMAIN analyses' : analyses'[a] = analyses[a]]_vars

\* updateRecordingTranscript has resolved on a stored recording that has a
\* stored analysis
C19_Witness ==
  /\ Resolved("updateRecordingTranscript")
  /\ Caller.res # Null
  /\ AnalysesOf(analyses, Caller.arg) # {}

\* the ids of the records of a result array
IdsOf(s) == {s[i].id : i \in 1..Len(s)}

\* C20: exportAllData returns every stored project, every stored recording
\* (without audioBlob, its other fields as getRecording returns them) and
\* every stored analysis, those of no stored project or recording included.
C20_ExportComplete ==
  Resolved("exportAllData") =>
    /\ IdsOf(Caller.res.projects) = DOMAIN projects
    /\ IdsOf(Caller.res.recordings) = DOMAIN recordings
    /\ \A i \in 1..Len(Caller.res.recordings) :
         LET r == Caller.res.recordings[i]
         IN /\ "audioBlob" \notin DOMAIN r
            /\ r.id \in DOMAIN recordings
            /\ r = WithoutKey(GetRecording(recordings, r.id), "audioBlob")
    /\ IdsOf(Caller.res.analyses) = DOMAIN analyses

\* C21: getProjectStats and exportAllData are read-only: when either has
\* resolved, the contents of projects, recordings and analyses, every
\* Project's updatedAt included, are what they were when it was called.
C21_ReadOnly ==
  (Resolved("getProjectStats") \/ Resolved("exportAllData")) =>
    Snapshot = Caller.pre

\* getProjectStats or exportAllData has resolved over a project with a
\* recording that has an analysis
C21_Witness ==
  /\ Resolved("getProjectStats") \/ Resolved("exportAllData")
  /\ \E r \in DOMAIN recordings :
       /\ recordings[r].projectId \in DOMAIN projects
       /\ AnalysesOf(analyses, r) # {}

\* C22: there is one store handle per process: every call of openDatabase
\* that has resolved, and the kept handle, are the same connection, and at
\* most one open request that did not fail has been issued.
C22_SingleHandle ==
  /\ \A p, q \in Procs :
       (task[p].op = "openDatabase" /\ task[p].pc = "done" /\
        task[q].op = "openDatabase" /\ task[q].pc = "done") =>
          task[p].res = task[q].res
  /\ \A p \in Procs :
       (task[p].op = "openDatabase" /\ task[p].pc = "done") =>
          task[p].res = dbInstance
  /\ Cardinality({i \in 1..Len(opens) : opens[i] # "error"}) <= 1

\* C23: a Project is stored with status draft and no recordingIds when it is
\* created, and no step of createRecording or deleteRecording changes the
\* status of a stored Project, also when the call overlaps an updateProject
\* of the same Project whose patch names status.
C23_StatusOwner ==
  [][\A p \in Procs :
       task'[p] # task[p] =>
         /\ task[p].op = "createProject" =>
               \A id \in DOMAIN projects' \ DOMAIN projects :
                  /\ projects'[id].status = Str("draft")
                  /\ projects'[id].recordingIds = <<>>
         /\ task[p].op \in {"createRecording", "deleteRecording"} =>
               \A id \in DOMAIN projects \cap DOMAIN projects' :
                  projects'[id].status = projects[id].status]_vars

\* C24: every stored Recording, whichever save path stored it (the save of
\* the recording made in the page, the save of an imported file, the upload
\* on the project page), has source realtime or uploaded.
C24_SourceValues ==
  \A r \in DOMAIN recordings :
     recordings[r].source \in {Str("realtime"), Str("uploaded")}

\* C25: once deleteProject(id) has resolved for a stored Project, no
\* AnalysisRecord with projectId = id is stored and getAnalysesByProject(id) is empty, however
\* the records were created, also by createAnalysis with a recordingId that
\* names no Recording or a Recording of another Project.
C25_NoAnalysisOfDeletedProject ==
  (Resolved("deleteProject") /\ Caller.arg \in DOMAIN Caller.pre.projects) =>
    /\ \A a \in DOMAIN analyses : analyses[a].projectId # Caller.arg
    /\ NoResult(getAnalysesByProject(analyses, Caller.arg))

\* C26: the cascades delete children before parents: in every state during
\* deleteProject(id) of a stored Project, also after it has stopped at a
\* failed step, the Project is stored as long as a Recording with
\* projectId = id is stored; in every state during the deletion of a stored
\* Recording r, the Recording is stored as long as an AnalysisRecord with
\* recordingId = r is stored.
C26_ChildrenFirst ==
  /\ (Caller.op = "deleteProject" /\ Caller.arg \in DOMAIN Caller.pre.projects
       /\ RecordingsOf(recordings, Caller.arg) # {})
        => Caller.arg \in DOMAIN projects
  /\ (Caller.op \in {"deleteProject", "deleteRecording"}
       /\ Caller.rid \in DOMAIN Caller.pre.recordings
       /\ AnalysesOf(analyses, Caller.rid) # {})
        => Caller.rid \in DOMAIN recordings

\* deleteProject of a project with a recording that has an analysis has
\* stopped after the analysis was deleted and before the recording was
\* deleted
C26_Witness ==
  /\ Caller.op = "deleteProject" /\ Caller.pc = "failed"
  /\ Caller.arg \in DOMAIN projects
  /\ Caller.rid \in DOMAIN recordings
  /\ AnalysesOf(Caller.pre.analyses, Caller.rid) # {}
  /\ AnalysesOf(analyses, Caller.rid) = {}

\* C27: when an analysis run for audio of a Project has succeeded
\* (analyzeImportedAudio with a project selected, handleAnalyzeRecording on
\* the project page), the Recording is stored and getAnalysesByRecording
\* returns an AnalysisRecord for it.
C27_AnalysisPersisted ==
  /\ Resolved("analyzeImportedAudio") =>
        /\ Caller.newId \in DOMAIN recordings
        /\ ~NoResult(getAnalysesByRecording(analyses, Caller.newId))
  /\ Resolved("handleAnalyzeRecording") =>
        (Caller.rid \in DOMAIN recordings =>
           ~NoResult(getAnalysesByRecording(analyses, Caller.rid)))

\* the keywords of an item that occur in the transcript, whatever the case
\* of the letters
Occurring(item, transcript) ==
  {i \in 1..Len(item.keywords) :
     includes(toLowerCase(transcript), toLowerCase(item.keywords[i]))}

\* C30: for every transcript and every checklist with at least one item,
\* fallbackAnalysis gives each item one status: covered when some and at
\* least half of its keywords occur in the transcript, partial when some but
\* fewer than half occur, missing when none occurs (as for an item with no
\* keywords); the three counts add up to totalItems and coverageRate is an
\* integer from 0 to 100.
C30_Classification ==
  (Resolved("fallbackAnalysis") /\ Len(allItems(Caller.obj.checklist)) >= 1) =>
    LET items == allItems(Caller.obj.checklist)
        r == Caller.res
    IN /\ r.totalItems = Len(items)
       /\ Len(r.results) = Len(items)
       /\ \A i \in 1..Len(items) :
            LET n == Cardinality(Occurring(items[i], Caller.obj.transcript))
            IN r.results[i].status =
                 IF n = 0 THEN "missing"
                 ELSE IF 2 * n >= Len(items[i].keywords) THEN "covered"
                 ELSE "partial"
       /\ r.coveredItems + r.partialItems + r.missingItems = r.totalItems
       /\ r.coverageRate \in 0..100

\* fallbackAnalysis has classified one item as covered on exactly half of its
\* keywords and another as partial
C30_Witness ==
  /\ Resolved("fallbackAnalysis")
  /\ Caller.res.partialItems >= 1
  /\ \E i \in 1..Len(Caller.res.results) :
       /\ Caller.res.results[i].status = "covered"
       /\ 2 * Cardinality(Occurring(Caller.res.results[i].item, Caller.obj.transcript))
            = Len(Caller.res.results[i].item.keywords)

====
